---- MODULE Spec2Model ----
(***************************************************************************)
(* Model of the coffee-shop services.                                      *)
(*                                                                         *)
(*  - kitchen-microservice/kitchen/api/api.py: the schedule handlers over  *)
(*    the process-wide list `schedules`, with the marshmallow schemas of   *)
(*    kitchen/api/schemas.py.  Python dicts are functions with a string    *)
(*    domain; a key that is absent from a dict is absent from the domain.  *)
(*  - orders-microservice/orders/repository: UnitOfWork and the            *)
(*    OrderModel / OrderItemModel tables.                                  *)
(*                                                                         *)
(* Timestamps are integers (UTC instants).  A request's scheduled field is *)
(* an ISO-8601 string, which a schema's DateTime field accepts.  The       *)
(* scheduled value of a stored schedule is a datetime object (api.py:57,   *)
(* and the loaded payload of a put): validate_schedule hands it to         *)
(* GetScheduleOrderSchema().validate() as it is, without isoformat(), and  *)
(* whether fields.DateTime deserializes a datetime object is a property of *)
(* the marshmallow build, which the model leaves open (acceptsDatetime).   *)
(***************************************************************************)
EXTENDS Integers, Sequences, FiniteSets, TLC

\* ------------------------------------------------------------------ bounds
MaxTime == 1          \* clock values 0..MaxTime
MaxIds == 2           \* number of uuid4 values that can be drawn
MaxOrders == 3        \* orders that are ever created
MaxOrderItems == 2    \* item rows of one order

Times == 0..MaxTime
Ids == 1..MaxIds
Limits == (-1)..MaxIds

VARIABLES schedules,  \* api.py:17, the list of schedule dicts
          now,        \* the UTC clock read by datetime.now(timezone.utc)
          issued,     \* uuid4 values drawn so far
          last,       \* the outcome of the latest request
          acceptsDatetime  \* whether fields.DateTime of the installed
                      \* marshmallow deserializes a datetime object

kvars == <<schedules, now, issued, last, acceptsDatetime>>

VARIABLES db,         \* the rows of orders.db that are committed
          txn,        \* the rows as the open session sees them
          session,    \* self.session: "none", "open" or "closed"
          scope,      \* "in" inside the with block, "out" outside
          building,   \* the order whose rows are being added, 0 if none
          orderSeq,   \* the latest id handed out by the orders table
          savepoint,  \* history: the rows to be durable, as of scope entry
                      \* or of the latest commit()
          deleted,    \* history: orders whose deletion was committed
          exited      \* history: how the latest scope was left

uvars == <<db, txn, session, scope, building, orderSeq, savepoint, deleted,
           exited>>

VARIABLES ordersNow,      \* the UTC clock of the orders process
          createdDefault, \* models.py:19, the default of OrderModel.created
          stamps          \* per order id: the created value of its row and,
                          \* as history, the clock value of its creation

ovars == <<ordersNow, createdDefault, stamps>>

VARIABLES req,       \* two requests in flight: the handler, its arguments,
                     \* its position and its local variables
          detached   \* the dicts that were removed from the list, by id

rvars == <<req, detached>>

vars == <<schedules, now, issued, last, acceptsDatetime,
          db, txn, session, scope, building, orderSeq, savepoint, deleted,
          exited, ordersNow, createdDefault, stamps, req, detached>>

\* ------------------------------------------------------- dicts and lists
\* dict.update(p): keys of p overwrite, other keys are kept
DictUpdate(d, p) ==
    [k \in (DOMAIN d) \cup (DOMAIN p) |-> IF k \in DOMAIN p THEN p[k] ELSE d[k]]

\* Meta.unknown = EXCLUDE: keys that the schema does not declare are dropped
Exclude(d, fields) == [k \in (DOMAIN d) \cap fields |-> d[k]]

\* the Python slice s[:n], n may be negative
Slice(s, n) ==
    LET stop == IF n >= 0 THEN (IF n < Len(s) THEN n ELSE Len(s))
                ELSE (IF Len(s) + n > 0 THEN Len(s) + n ELSE 0)
    IN  SubSeq(s, 1, stop)

\* del s[i:]
DelIndex_tail(s, i) == SubSeq(s, 1, i - 1)

\* del s[i] (1-based here)
DelIndex(s, i) == SubSeq(s, 1, i - 1) \o SubSeq(s, i + 1, Len(s))

\* ---------------------------------------------------------------- schemas
Sizes == {"Small", "Medium", "Large"}
Statuses == {"pending", "progress", "cancelled", "finished"}

\* schemas.py:3-9, the fields of an item that fail validation
OrderItemSchema(item) ==
    {f \in {"product", "size", "quantity"} : f \notin DOMAIN item}
    \cup (IF "size" \in DOMAIN item /\ item["size"] \notin Sizes THEN {"size"} ELSE {})
    \cup (IF "quantity" \in DOMAIN item /\ item["quantity"] < 1
          THEN {"quantity"} ELSE {})

OrderItemFields == {"product", "size", "quantity"}

\* a list field whose items are not validated
OrderListErrors_lax(d) == IF "order" \notin DOMAIN d THEN {"order"} ELSE {}

\* fields.List(fields.Nested(OrderItemSchema), required=True)
OrderListErrors(d) ==
    IF "order" \notin DOMAIN d THEN {"order"}
    ELSE IF \E i \in 1..Len(d["order"]) : OrderItemSchema(d["order"][i]) # {}
         THEN {"order"} ELSE {}

\* schemas.py:17-21, the fields of a request body that fail validation
ScheduleOrderSchema(d) == OrderListErrors(d)

\* a request schema that also declares id
ScheduleOrderFields_withId == {"order", "scheduled", "id"}

\* schemas.py:20-21, the fields that ScheduleOrderSchema declares
ScheduleOrderFields == {"order", "scheduled"}

\* what @blueprint.arguments(ScheduleOrderSchema) hands to the handler
ScheduleOrderLoad(d) ==
    LET kept == Exclude(d, ScheduleOrderFields)
    IN  DictUpdate(kept,
          [order |-> [i \in 1..Len(d["order"]) |->
                         Exclude(d["order"][i], OrderItemFields)]])

\* schemas.py:23-36, the fields of a stored schedule that fail validation;
\* the scheduled value of a stored schedule is a datetime object
GetScheduleOrderSchema(d) ==
    {f \in {"id", "status", "scheduled"} : f \notin DOMAIN d}
    \cup (IF "scheduled" \in DOMAIN d /\ ~acceptsDatetime
          THEN {"scheduled"} ELSE {})
    \cup (IF "status" \in DOMAIN d /\ d["status"] \notin Statuses
          THEN {"status"} ELSE {})
    \cup OrderListErrors(d)

\* schemas.py:49-55: progress, limit, since; everything else is dropped
GetKitchenScheduleFields == {"progress", "limit", "since"}
GetKitchenScheduleParameters(q) == Exclude(q, GetKitchenScheduleFields)

\* api.py:20-24, TRUE when validate_schedule raises ValidationError
validate_schedule(schedule) == GetScheduleOrderSchema(schedule) # {}

\* dict.get(key) is not None
Has(d, k) == k \in DOMAIN d

\* ------------------------------------------------------- request inputs
GoodItem == [product |-> "latte", size |-> "Small", quantity |-> 1]
BadItems == { [product |-> "latte", size |-> "Huge", quantity |-> 1],
              [product |-> "latte", size |-> "Large", quantity |-> 0],
              [product |-> "latte", size |-> "Large"] }

\* order lists of request bodies: one item, and two items of which the
\* second fails validation
RawOrders == { <<GoodItem>> } \cup { <<GoodItem, b>> : b \in BadItems }

\* request bodies: an order list or none, with or without scheduled, and
\* with a caller-chosen id and status
RawPayloads ==
    LET base == { [order |-> o] : o \in RawOrders }
        valid == { b \in base : OrderListErrors(b) = {} }
        sched == { DictUpdate(b, [scheduled |-> t]) : b \in valid, t \in Times }
    IN  base \cup { [note |-> "no order"] } \cup
        { DictUpdate(b, [id |-> 1, status |-> "finished"]) : b \in sched }

\* query strings of GET /kitchen/schedules
RawQueries ==
    LET none == { [page |-> 1] }
        flag == { [in_progress |-> b] : b \in BOOLEAN }
        since == { DictUpdate(q, [since |-> t]) : q \in none \cup flag, t \in Times }
    IN  none \cup flag \cup since \cup
        { DictUpdate(q, [limit |-> n]) :
             q \in none \cup {x \in since : ~Has(x, "in_progress")}, n \in Limits }

\* ------------------------------------------------------------- responses
\* what the latest request was and what it answered: the operation, the
\* schedule_id of the URL, the status code, the returned records, and, for
\* put, delete and cancel, the record that the loop found as it was before
\* the handler changed it
Response(op, id, code, body, found) ==
    [op |-> op, id |-> id, code |-> code, body |-> body, found |-> found]

\* the first index whose record has the id, 0 when the loop falls through
Scan(s, id) ==
    IF \E i \in 1..Len(s) : s[i]["id"] = id
    THEN CHOOSE i \in 1..Len(s) :
            /\ s[i]["id"] = id
            /\ \A j \in 1..(i - 1) : s[j]["id"] # id
    ELSE 0

\* str(uuid.uuid4()): a value that was not drawn before; the values are
\* named by the order in which they are drawn
uuid4(used) == {Cardinality(used) + 1} \cap Ids

\* ------------------------------------------------------ orders: tables
\* models.py:13-21 and 34-41: the orders table holds order ids, the
\* order_item table holds rows with an id and the order_id foreign key
NoRows == [orders |-> {}, items |-> {}]

SetMax(S) == IF S = {} THEN 0 ELSE CHOOSE m \in S : \A x \in S : x <= m

\* models.py:16: autoincrement=True, the next integer identity
NextOrderId(seq) == seq + 1

\* models.py:37: default=generate_uuid, a value no other row has
NextItemId(rows) == SetMax({it.id : it \in rows.items}) + 1

ItemsOf(rows, o) == {it \in rows.items : it.order_id = o}

\* a relationship without the cascade
Cascade_none(rows, o) == {}

\* models.py:17: relationship(..., cascade="all, delete-orphan"): the items
\* that are deleted together with order o
Cascade(rows, o) == ItemsOf(rows, o)

\* session.delete(order) on an OrderModel row
SessionDelete(rows, o) ==
    [orders |-> rows.orders \ {o}, items |-> rows.items \ Cascade(rows, o)]

\* ----------------------------------------------------- orders: session
\* the effect of one session method on the committed rows, the session's
\* view of the rows and the session's state
SessionCall(st, c) ==
    CASE c = "commit"   -> [st EXCEPT !.db = st.txn]
      [] c = "rollback" -> [st EXCEPT !.txn = st.db]
      [] c = "close"    -> [st EXCEPT !.txn = st.db, !.session = "closed"]

RECURSIVE RunCalls(_, _)
RunCalls(st, calls) ==
    IF calls = <<>> THEN st
    ELSE RunCalls(SessionCall(st, Head(calls)), Tail(calls))

\* an __exit__ whose test of exc_type is inverted
ExitCalls_inverted(exc) ==
    IF ~exc THEN <<"rollback", "close", "close">> ELSE <<"close">>

\* an __exit__ that commits when there was no exception
ExitCalls_autocommit(exc) ==
    IF exc THEN <<"rollback", "close", "close">> ELSE <<"commit", "close">>

\* unit_of_work.py:26-34 with 42-46: the session methods that __exit__
\* calls, in order
ExitCalls(exc) ==
    IF exc THEN <<"rollback", "close", "close">> ELSE <<"close">>

\* unit_of_work.py:36-40
CommitCalls == <<"commit">>

\* unit_of_work.py:42-46
RollbackCalls == <<"rollback">>

\* models.py:19, default=datetime.now(timezone.utc): the argument is
\* evaluated when the class body runs, at import; the column default is that
\* one value
ImportDefault(importClock) == importClock

\* the created value of a row that is inserted at clock value t without a
\* created value of its own: the column default, a plain value and not a
\* callable, is used as it is
InsertCreated(default, t) == default

\* ------------------------------------------------------------------ Init
KInit ==
    /\ schedules = <<>>
    /\ now = 0
    /\ issued = {}
    /\ last = Response("none", 0, 0, <<>>, <<>>)
    /\ acceptsDatetime \in BOOLEAN

\* unit_of_work.py:10-16: no session yet, an empty orders.db
UInit ==
    /\ db = NoRows
    /\ txn = NoRows
    /\ session = "none"
    /\ scope = "out"
    /\ building = 0
    /\ orderSeq = 0
    /\ savepoint = NoRows
    /\ deleted = {}
    /\ exited = [exc |-> FALSE, order |-> 0, calls |-> <<>>, view |-> NoRows]

\* models.py is imported when the orders process starts
OInit ==
    /\ ordersNow = 0
    /\ createdDefault = ImportDefault(0)
    /\ stamps = <<>>

\* a request slot with no request in it
NoRequest ==
    [op |-> "none", id |-> 0, payload |-> <<>>, pc |-> "done", index |-> 0,
     schedule |-> 0, code |-> 0, removed |-> 0, inList |-> TRUE]

Requests == {1, 2}

RInit ==
    /\ req = [r \in Requests |-> NoRequest]
    /\ detached = <<>>

Init == KInit /\ UInit /\ OInit /\ RInit

\* the clock advances between requests
Tick ==
    /\ now < MaxTime
    /\ now' = now + 1
    /\ UNCHANGED <<schedules, issued, last>>
    /\ UNCHANGED acceptsDatetime
    /\ UNCHANGED uvars
    /\ UNCHANGED ovars
    /\ UNCHANGED rvars

\* api.py:42 and 44, the status that the in_progress filter compares with
InProgress == "in progress"

\* api.py:38-51, the query_set built from the loaded parameters; a list
\* comprehension [x for x in s if keep(x)] is SelectSeq(s, keep)
QuerySet(s, parameters) ==
    LET qs1 == IF ~Has(parameters, "in_progress") THEN s
               ELSE IF parameters["in_progress"]
                    THEN SelectSeq(s, LAMBDA r : r["status"] = InProgress)
                    ELSE SelectSeq(s, LAMBDA r : r["status"] # InProgress)
        qs2 == IF Has(parameters, "since")
               THEN SelectSeq(qs1, LAMBDA r : r["scheduled"] >= parameters["since"])
               ELSE qs1
    IN  IF Has(parameters, "limit") THEN Slice(qs2, parameters["limit"]) ELSE qs2

\* api.py:30-51, GET /kitchen/schedules
Schedules_get(raw) ==
    /\ LET parameters == GetKitchenScheduleParameters(raw)
       IN  last' = IF \E i \in 1..Len(schedules) : validate_schedule(schedules[i])
                   THEN Response("list", 0, 500, <<>>, <<>>)
                   ELSE Response("list", 0, 200,
                                 QuerySet(schedules, parameters), <<>>)
    /\ UNCHANGED <<schedules, now, issued>>
    /\ UNCHANGED acceptsDatetime
    /\ UNCHANGED uvars
    /\ UNCHANGED ovars
    /\ UNCHANGED rvars

\* a create that keeps the scheduled value of the request body
PostPayload_keepScheduled(payload, id, clock) ==
    DictUpdate(DictUpdate(DictUpdate(payload, [id |-> id]),
                          [scheduled |-> IF Has(payload, "scheduled")
                                         THEN payload["scheduled"] ELSE clock]),
               [status |-> "pending"])

\* api.py:56-58, the three assignments to the loaded payload
PostPayload(payload, id, clock) ==
    DictUpdate(DictUpdate(DictUpdate(payload, [id |-> id]),
                          [scheduled |-> clock]),
               [status |-> "pending"])

\* api.py:53-61, POST /kitchen/schedules
Schedules_post(raw, id) ==
    /\ id \in uuid4(issued)
    /\ IF ScheduleOrderSchema(raw) # {}
       THEN /\ last' = Response("post", 0, 422, <<>>, <<>>)
            /\ UNCHANGED <<schedules, issued>>
       ELSE LET payload == PostPayload(ScheduleOrderLoad(raw), id, now)
            IN  /\ schedules' = Append(schedules, payload)
                /\ issued' = issued \cup {id}
                /\ last' = IF validate_schedule(payload)
                           THEN Response("post", id, 500, <<>>, <<>>)
                           ELSE Response("post", id, 201, <<payload>>, <<>>)
    /\ UNCHANGED now
    /\ UNCHANGED acceptsDatetime
    /\ UNCHANGED uvars
    /\ UNCHANGED ovars
    /\ UNCHANGED rvars

\* api.py:65-72, GET /kitchen/schedules/<schedule_id>: the abort is inside
\* the loop body, so only the first element is ever compared; with an empty
\* list the loop body never runs and the view returns None
KitchenSchedule_get(schedule_id) ==
    /\ last' = IF Len(schedules) = 0
               THEN Response("get", schedule_id, 200, <<>>, <<>>)
               ELSE IF schedules[1]["id"] = schedule_id
                    THEN IF validate_schedule(schedules[1])
                         THEN Response("get", schedule_id, 500, <<>>, <<>>)
                         ELSE Response("get", schedule_id, 200, <<schedules[1]>>, <<>>)
                    ELSE Response("get", schedule_id, 404, <<>>, <<>>)
    /\ UNCHANGED <<schedules, now, issued>>
    /\ UNCHANGED acceptsDatetime
    /\ UNCHANGED uvars
    /\ UNCHANGED ovars
    /\ UNCHANGED rvars

\* api.py:74-82, PUT /kitchen/schedules/<schedule_id>
KitchenSchedule_put(schedule_id, raw) ==
    /\ IF ScheduleOrderSchema(raw) # {}
       THEN /\ last' = Response("put", schedule_id, 422, <<>>, <<>>)
            /\ UNCHANGED schedules
       ELSE LET i == Scan(schedules, schedule_id)
            IN  IF i = 0
                THEN /\ last' = Response("put", schedule_id, 404, <<>>, <<>>)
                     /\ UNCHANGED schedules
                ELSE LET schedule == DictUpdate(schedules[i], ScheduleOrderLoad(raw))
                     IN  /\ schedules' = [schedules EXCEPT ![i] = schedule]
                         /\ last' = IF validate_schedule(schedule)
                                    THEN Response("put", schedule_id, 500, <<>>, <<schedules[i]>>)
                                    ELSE Response("put", schedule_id, 200, <<schedule>>, <<schedules[i]>>)
    /\ UNCHANGED <<now, issued>>
    /\ UNCHANGED acceptsDatetime
    /\ UNCHANGED uvars
    /\ UNCHANGED ovars
    /\ UNCHANGED rvars

\* api.py:83-89, DELETE /kitchen/schedules/<schedule_id>
KitchenSchedule_delete(schedule_id) ==
    /\ LET index == Scan(schedules, schedule_id)
       IN  IF index = 0
           THEN /\ last' = Response("delete", schedule_id, 404, <<>>, <<>>)
                /\ UNCHANGED schedules
           ELSE /\ schedules' = DelIndex(schedules, index)
                /\ last' = Response("delete", schedule_id, 204, <<>>, <<schedules[index]>>)
    /\ UNCHANGED <<now, issued>>
    /\ UNCHANGED acceptsDatetime
    /\ UNCHANGED uvars
    /\ UNCHANGED ovars
    /\ UNCHANGED rvars

\* a cancel that re-opens a record that is already cancelled
SetCancelled_toggle(schedule) ==
    DictUpdate(schedule, [status |-> IF schedule["status"] = "cancelled"
                                     THEN "pending" ELSE "cancelled"])

\* a cancel that writes a status outside the enumeration
SetCancelled_typo(schedule) == DictUpdate(schedule, [status |-> "canceled"])

\* api.py:97, schedule["status"] = "cancelled"
SetCancelled(schedule) == DictUpdate(schedule, [status |-> "cancelled"])

\* api.py:91-100, POST /kitchen/schedules/<schedule_id>/cancel
cancel_schedule(schedule_id) ==
    /\ LET i == Scan(schedules, schedule_id)
       IN  IF i = 0
           THEN /\ last' = Response("cancel", schedule_id, 404, <<>>, <<>>)
                /\ UNCHANGED schedules
           ELSE LET schedule == SetCancelled(schedules[i])
                IN  /\ schedules' = [schedules EXCEPT ![i] = schedule]
                    /\ last' = IF validate_schedule(schedule)
                               THEN Response("cancel", schedule_id, 500, <<>>, <<schedules[i]>>)
                               ELSE Response("cancel", schedule_id, 200, <<schedule>>, <<schedules[i]>>)
    /\ UNCHANGED <<now, issued>>
    /\ UNCHANGED acceptsDatetime
    /\ UNCHANGED uvars
    /\ UNCHANGED ovars
    /\ UNCHANGED rvars

\* api.py:101-109, GET /kitchen/schedules/<schedule_id>/status
get_schedule_status(schedule_id) ==
    /\ LET i == Scan(schedules, schedule_id)
       IN  last' = IF i = 0
                   THEN Response("status", schedule_id, 404, <<>>, <<>>)
                   ELSE IF validate_schedule(schedules[i])
                        THEN Response("status", schedule_id, 500, <<>>, <<>>)
                        ELSE Response("status", schedule_id, 200,
                                      <<[status |-> schedules[i]["status"]]>>, <<>>)
    /\ UNCHANGED <<schedules, now, issued>>
    /\ UNCHANGED acceptsDatetime
    /\ UNCHANGED uvars
    /\ UNCHANGED ovars
    /\ UNCHANGED rvars

Next ==
    \/ Tick
    \/ \E raw \in RawQueries : Schedules_get(raw)
    \/ \E raw \in RawPayloads, id \in Ids : Schedules_post(raw, id)
    \/ \E id \in Ids : KitchenSchedule_get(id)
    \/ \E id \in Ids, raw \in RawPayloads : KitchenSchedule_put(id, raw)
    \/ \E id \in Ids : KitchenSchedule_delete(id)
    \/ \E id \in Ids : cancel_schedule(id)
    \/ \E id \in Ids : get_schedule_status(id)

Spec == Init /\ [][Next]_vars

\* ------------------------------------------------- orders: unit of work
SessionState == [db |-> db, txn |-> txn, session |-> session]

\* unit_of_work.py:18-24: a new session, which sees the committed rows
UnitOfWork_enter ==
    /\ scope = "out"
    /\ scope' = "in"
    /\ session' = "open"
    /\ txn' = db
    /\ savepoint' = db
    /\ building' = 0
    /\ exited' = [exc |-> FALSE, order |-> 0, calls |-> <<>>, view |-> db]
    /\ UNCHANGED <<db, orderSeq, deleted>>
    /\ UNCHANGED kvars
    /\ UNCHANGED rvars
    /\ UNCHANGED ovars

\* section 4.5, create: session.add of the order row
place_order ==
    /\ scope = "in"
    /\ building = 0
    /\ orderSeq < MaxOrders
    /\ orderSeq' = NextOrderId(orderSeq)
    /\ building' = NextOrderId(orderSeq)
    /\ txn' = [txn EXCEPT !.orders = @ \cup {NextOrderId(orderSeq)}]
    /\ stamps' = Append(stamps, [created |-> InsertCreated(createdDefault, ordersNow),
                                 at |-> ordersNow])
    /\ UNCHANGED <<db, session, scope, savepoint, deleted, exited>>
    /\ UNCHANGED <<ordersNow, createdDefault>>
    /\ UNCHANGED kvars
    /\ UNCHANGED rvars

\* section 4.5, create: one more item row of the order being created
add_item ==
    /\ scope = "in"
    /\ building # 0
    /\ Cardinality(ItemsOf(txn, building)) < MaxOrderItems
    /\ txn' = [txn EXCEPT !.items =
                 @ \cup {[id |-> NextItemId(txn), order_id |-> building]}]
    /\ UNCHANGED <<db, session, scope, building, orderSeq, savepoint, deleted, exited>>
    /\ UNCHANGED kvars
    /\ UNCHANGED rvars
    /\ UNCHANGED ovars

\* section 4.5, create: the order row and all its item rows were added
order_placed ==
    /\ scope = "in"
    /\ building # 0
    /\ ItemsOf(txn, building) # {}
    /\ building' = 0
    /\ UNCHANGED <<db, txn, session, scope, orderSeq, savepoint, deleted, exited>>
    /\ UNCHANGED kvars
    /\ UNCHANGED rvars
    /\ UNCHANGED ovars

\* section 4.5, delete: session.delete of an order row
delete_order(o) ==
    /\ scope = "in"
    /\ building = 0
    /\ o \in txn.orders
    /\ txn' = SessionDelete(txn, o)
    /\ UNCHANGED <<db, session, scope, building, orderSeq, savepoint, deleted, exited>>
    /\ UNCHANGED kvars
    /\ UNCHANGED rvars
    /\ UNCHANGED ovars

\* unit_of_work.py:36-40
UnitOfWork_commit ==
    /\ scope = "in"
    /\ building = 0
    /\ LET st == RunCalls(SessionState, CommitCalls)
       IN  /\ db' = st.db
           /\ txn' = st.txn
           /\ session' = st.session
    /\ savepoint' = txn
    /\ deleted' = deleted \cup (db.orders \ txn.orders)
    /\ UNCHANGED <<scope, building, orderSeq, exited>>
    /\ UNCHANGED kvars
    /\ UNCHANGED rvars
    /\ UNCHANGED ovars

\* unit_of_work.py:42-46
UnitOfWork_rollback ==
    /\ scope = "in"
    /\ building = 0
    /\ LET st == RunCalls(SessionState, RollbackCalls)
       IN  /\ db' = st.db
           /\ txn' = st.txn
           /\ session' = st.session
    /\ UNCHANGED <<scope, building, orderSeq, savepoint, deleted, exited>>
    /\ UNCHANGED kvars
    /\ UNCHANGED rvars
    /\ UNCHANGED ovars

\* unit_of_work.py:26-34: leaving the with block, with an exception (exc)
\* or without; an order that is being created is left only by an exception
UnitOfWork_exit(exc) ==
    /\ scope = "in"
    /\ (building # 0) => exc
    /\ LET st == RunCalls(SessionState, ExitCalls(exc))
       IN  /\ db' = st.db
           /\ txn' = st.txn
           /\ session' = st.session
    /\ scope' = "out"
    /\ building' = 0
    /\ exited' = [exc |-> exc, order |-> building, calls |-> ExitCalls(exc),
                  view |-> txn]
    /\ UNCHANGED <<orderSeq, savepoint, deleted>>
    /\ UNCHANGED kvars
    /\ UNCHANGED rvars
    /\ UNCHANGED ovars

UowNext ==
    \/ UnitOfWork_enter
    \/ place_order
    \/ add_item
    \/ order_placed
    \/ \E o \in 1..MaxOrders : delete_order(o)
    \/ UnitOfWork_commit
    \/ UnitOfWork_rollback
    \/ \E exc \in BOOLEAN : UnitOfWork_exit(exc)

UowSpec == Init /\ [][UowNext]_vars

\* the clock of the orders process advances
OrdersTick ==
    /\ ordersNow < MaxTime
    /\ ordersNow' = ordersNow + 1
    /\ UNCHANGED <<createdDefault, stamps>>
    /\ UNCHANGED uvars
    /\ UNCHANGED kvars
    /\ UNCHANGED rvars

\* the unit of work with the clock running
StampNext ==
    \/ UowNext
    \/ OrdersTick

StampSpec == Init /\ [][StampNext]_vars

\* ------------------------------------------- kitchen: requests that race
\* Two requests run KitchenSchedule.put, KitchenSchedule.delete or
\* cancel_schedule on the shared list; each runs its loop up to the match as
\* one step and its mutation as another.  A dict is an object: the loop
\* variable `schedule` refers to it whether or not it is still in the list;
\* the model names the object by its id and keeps the objects that left the
\* list in `detached`.

\* the bodies that @blueprint.arguments(ScheduleOrderSchema) lets through
ValidPayloads == {raw \in RawPayloads : ScheduleOrderSchema(raw) = {}}

\* a request arrives; for put the body is loaded before the handler runs
Race_begin(r, op, id, raw) ==
    /\ req[r].pc = "done"
    /\ req' = [req EXCEPT ![r] =
                 [NoRequest EXCEPT !.op = op, !.id = id, !.pc = "scan",
                    !.payload = IF op = "put" THEN ScheduleOrderLoad(raw) ELSE <<>>]]
    /\ UNCHANGED <<detached, schedules, now, issued, last, acceptsDatetime>>
    /\ UNCHANGED uvars
    /\ UNCHANGED ovars

\* api.py:77-78, 85-86, 95-96: the loop up to the first record with the id;
\* api.py:82, 89, 100: abort(404) when the loop falls through
Race_scan(r) ==
    /\ req[r].pc = "scan"
    /\ LET i == Scan(schedules, req[r].id)
       IN  req' = [req EXCEPT ![r] =
                     IF i = 0
                     THEN [@ EXCEPT !.pc = "done", !.code = 404]
                     ELSE [@ EXCEPT !.pc = "mutate", !.index = i,
                                    !.schedule = schedules[i]["id"]]]
    /\ UNCHANGED <<detached, schedules, now, issued, last, acceptsDatetime>>
    /\ UNCHANGED uvars
    /\ UNCHANGED ovars

\* api.py:87-88: del schedules[index] with the index that the loop found;
\* an index past the end raises IndexError
Race_delete(r) ==
    /\ req[r].pc = "mutate"
    /\ req[r].op = "delete"
    /\ LET index == req[r].index
       IN  IF index > Len(schedules)
           THEN /\ req' = [req EXCEPT ![r].pc = "done", ![r].code = 500]
                /\ UNCHANGED <<schedules, detached>>
           ELSE /\ schedules' = DelIndex(schedules, index)
                /\ detached' = DictUpdate(detached,
                                   [k \in {schedules[index]["id"]} |-> schedules[index]])
                /\ req' = [req EXCEPT ![r].pc = "done", ![r].code = 204,
                                      ![r].removed = schedules[index]["id"]]
    /\ UNCHANGED <<now, issued, last, acceptsDatetime>>
    /\ UNCHANGED uvars
    /\ UNCHANGED ovars

\* api.py:79-81 and 97-99: the write to the dict that the loop variable
\* refers to, then validate_schedule on it
Race_write(r) ==
    /\ req[r].pc = "mutate"
    /\ req[r].op \in {"put", "cancel"}
    /\ LET id == req[r].schedule
           i == Scan(schedules, id)
           old == IF i # 0 THEN schedules[i] ELSE detached[id]
           schedule == IF req[r].op = "put" THEN DictUpdate(old, req[r].payload)
                       ELSE SetCancelled(old)
       IN  /\ IF i # 0
              THEN /\ schedules' = [schedules EXCEPT ![i] = schedule]
                   /\ UNCHANGED detached
              ELSE /\ detached' = [detached EXCEPT ![id] = schedule]
                   /\ UNCHANGED schedules
           /\ req' = [req EXCEPT ![r].pc = "done", ![r].inList = (i # 0),
                                 ![r].code = IF validate_schedule(schedule)
                                             THEN 500 ELSE 200]
    /\ UNCHANGED <<now, issued, last, acceptsDatetime>>
    /\ UNCHANGED uvars
    /\ UNCHANGED ovars

\* creates run one at a time; updates, deletes and cancels interleave
RaceNext ==
    \/ \E raw \in ValidPayloads, id \in Ids : Schedules_post(raw, id)
    \/ \E r \in Requests, op \in {"put", "delete", "cancel"}, id \in Ids,
          raw \in ValidPayloads : Race_begin(r, op, id, raw)
    \/ \E r \in Requests : Race_scan(r)
    \/ \E r \in Requests : Race_delete(r)
    \/ \E r \in Requests : Race_write(r)

RaceSpec == Init /\ [][RaceNext]_vars

\* ================================================================ claims
IdsOf(s) == {s[i]["id"] : i \in 1..Len(s)}

\* the records of s that were scheduled at or after t, in the order of s
Since(s, t) == SelectSeq(s, LAMBDA r : r["scheduled"] >= t)

\* C1: a create with a valid body, whatever id, status or scheduled the
\* body carries, appends exactly one record at the end of the list and
\* answers 201 with that record, whose status is pending, whose id is the id
\* of no record that was already in the list, and whose scheduled is the
\* clock value of the call.
C1_CreateAppendsPendingRecord ==
    [][last'.op = "post" =>
         \A raw \in RawPayloads, id \in Ids :
            (ScheduleOrderSchema(raw) = {} /\ Schedules_post(raw, id)) =>
               LET r == schedules'[Len(schedules')]
               IN  /\ schedules' = Append(schedules, r)
                   /\ last'.code = 201
                   /\ last'.body = <<r>>
                   /\ r["status"] = "pending"
                   /\ r["id"] \notin IdsOf(schedules)
                   /\ r["scheduled"] = now]_vars

\* a create answered 201 with the appended record, at a clock value that is
\* not the initial one and with a record in the list already
C1_Witness ==
    /\ last.op = "post"
    /\ last.code = 201
    /\ Len(schedules) >= 2
    /\ last.body = <<schedules[Len(schedules)]>>
    /\ now > 0
    /\ last.body[1]["scheduled"] = now

\* C2: get-by-id of an id that a record of the list has, at whatever
\* position, answers 200 with that record (stated for the builds whose
\* validation accepts the stored records).
C2_GetByIdFindsEveryRecord ==
    (acceptsDatetime /\ last.op = "get" /\ Scan(schedules, last.id) # 0) =>
       /\ last.code = 200
       /\ last.body = <<schedules[Scan(schedules, last.id)]>>

\* C3: get-by-id, update (with a valid body), delete, cancel and get-status
\* of an id that no record of the list has, the empty list included, answer
\* 404 and leave the list as it was.
C3_UnknownIdIsNotFound ==
    [][\A id \in Ids : Scan(schedules, id) = 0 =>
         LET NotFound == last'.code = 404 /\ schedules' = schedules
         IN  /\ KitchenSchedule_get(id) => NotFound
             /\ \A raw \in RawPayloads :
                   (ScheduleOrderSchema(raw) = {} /\ KitchenSchedule_put(id, raw))
                      => NotFound
             /\ KitchenSchedule_delete(id) => NotFound
             /\ cancel_schedule(id) => NotFound
             /\ get_schedule_status(id) => NotFound]_vars

\* C4: a listing with in_progress=true returns exactly the records whose
\* status is the in-progress status, a listing with in_progress=false
\* exactly the others; the two results are disjoint and together make up the
\* unfiltered listing (stated for the builds whose validation accepts the
\* stored records).
C4_InProgressFilterPartitions ==
    [][(acceptsDatetime /\ last'.op = "list") =>
         \A b \in BOOLEAN : Schedules_get([in_progress |-> b]) =>
            /\ last'.code = 200
            /\ last'.body = SelectSeq(schedules,
                  LAMBDA r : (r["status"] = InProgress) = b)]_vars

\* C5: a listing with since=T returns exactly the records with
\* scheduled >= T in the order of the list; with limit=N as well, for every
\* integer N that is accepted, it returns a prefix of that sequence of at
\* most N records, the first N when there are at least N (stated for the
\* builds whose validation accepts the stored records).
C5_SinceAndLimit ==
    [][(acceptsDatetime /\ last'.op = "list") =>
         \A raw \in RawQueries :
            (Has(raw, "since") /\ ~Has(raw, "in_progress")
                /\ Schedules_get(raw)) =>
               LET matching == Since(schedules, raw["since"])
                   body == last'.body
               IN  /\ last'.code = 200
                   /\ IF Has(raw, "limit")
                      THEN /\ Len(body) <= raw["limit"]
                           /\ Len(body) <= Len(matching)
                           /\ body = SubSeq(matching, 1, Len(body))
                           /\ Len(matching) >= raw["limit"]
                                 => Len(body) = raw["limit"]
                      ELSE body = matching]_vars

\* C6: a cancel of the id of a record of the list, whatever its status,
\* answers 200 with the record, whose status is now cancelled; when the
\* record was cancelled already the list is left exactly as it was.
C6_CancelIsIdempotent ==
    [][last'.op = "cancel" =>
         \A id \in Ids : (Scan(schedules, id) # 0 /\ cancel_schedule(id)) =>
            LET i == Scan(schedules, id)
            IN  /\ last'.code = 200
                /\ Len(schedules') = Len(schedules)
                /\ schedules'[i]["status"] = "cancelled"
                /\ last'.body = <<schedules'[i]>>
                /\ \A j \in 1..Len(schedules) :
                      j # i => schedules'[j] = schedules[j]
                /\ schedules[i]["status"] = "cancelled"
                      => schedules' = schedules]_vars

\* a cancel answered 200 for a record that was cancelled before the call
C6_Witness ==
    /\ last.op = "cancel"
    /\ last.code = 200
    /\ last.found # <<>>
    /\ last.found[1]["status"] = "cancelled"
    /\ last.body = last.found

FirstIndex(calls, c) ==
    IF \E i \in 1..Len(calls) : calls[i] = c
    THEN CHOOSE i \in 1..Len(calls) :
            calls[i] = c /\ \A j \in 1..(i - 1) : calls[j] # c
    ELSE 0

\* C7: after a scope is left with an error, rollback was called before the
\* session was closed, the session is closed, the durable rows are those of
\* the latest commit() of the scope (of scope entry if there was none), and
\* an order that was being created has no order row and no item row among
\* them.
C7_ErrorExitRollsBack ==
    (scope = "out" /\ exited.exc) =>
       /\ FirstIndex(exited.calls, "rollback") # 0
       /\ FirstIndex(exited.calls, "rollback") < FirstIndex(exited.calls, "close")
       /\ session = "closed"
       /\ db = savepoint
       /\ exited.order # 0 =>
             /\ exited.order \notin db.orders
             /\ ItemsOf(db, exited.order) = {}

\* a scope left with an error after the order row and one item row of a new
\* order were added, with rows committed earlier
C7_Witness ==
    /\ scope = "out"
    /\ exited.exc
    /\ exited.order # 0
    /\ Cardinality(ItemsOf(exited.view, exited.order)) = 1
    /\ db # NoRows
    /\ db = savepoint

\* C8: the durable rows are always those of the latest commit() (of scope
\* entry if there was none), commit() makes every row of the session
\* durable, and a scope left without error has closed its session and has
\* made nothing durable that was not committed.
C8_NoAutoCommit ==
    /\ db = savepoint
    /\ (scope = "out" /\ session # "none" /\ ~exited.exc) =>
          /\ session = "closed"
          /\ txn = db

\* a scope left without error that had committed rows and then added rows
\* that it did not commit
C8_Witness ==
    /\ scope = "out"
    /\ ~exited.exc
    /\ session = "closed"
    /\ db # NoRows
    /\ exited.view # db
    /\ db.orders \subseteq exited.view.orders
    /\ db.orders # exited.view.orders

\* C9: no item row, durable or in the session, references an order whose
\* deletion was committed, and every durable item row references a durable
\* order row.
C9_NoOrphanItems ==
    /\ \A it \in db.items : it.order_id \notin deleted /\ it.order_id \in db.orders
    /\ \A it \in txn.items : it.order_id \notin deleted /\ it.order_id \in txn.orders

\* the deletion of an order (every order that is placed owns item rows) was
\* committed, and another order with its items is still there
C9_Witness ==
    /\ scope = "out"
    /\ deleted # {}
    /\ db.items # {}

\* C10: every record of the list has one of the four statuses.
C10_StatusInEnumeration ==
    \A i \in 1..Len(schedules) : schedules[i]["status"] \in Statuses

\* after creates, a cancel and an update the list holds a cancelled and a
\* pending record
C10_Witness ==
    /\ last.op = "put"
    /\ last.code = 200
    /\ \E i \in 1..Len(schedules) : schedules[i]["status"] = "cancelled"
    /\ \E i \in 1..Len(schedules) : schedules[i]["status"] = "pending"

\* C11: scheduled is set once, at creation: no update or cancel that
\* succeeds, whatever valid body it carries, changes the scheduled value of
\* a record of the list.
C11_ScheduledSetOnce ==
    [][(last'.op \in {"put", "cancel"} /\ last'.code = 200) =>
         \A i \in 1..Len(schedules), j \in 1..Len(schedules') :
            schedules[i]["id"] = schedules'[j]["id"] =>
               schedules'[j]["scheduled"] = schedules[i]["scheduled"]]_vars

\* the ids of the records of s are pairwise different
UniqueIds(s) ==
    \A i, j \in 1..Len(s) : s[i]["id"] = s[j]["id"] => i = j

\* C12: no two records of the list share an id, and an update or a cancel,
\* whatever body it carries, leaves the id of the record at every position
\* as it was.
C12_IdsUniqueAndImmutable ==
    [][/\ UniqueIds(schedules)
       /\ UniqueIds(schedules')
       /\ last'.op \in {"put", "cancel"} =>
             /\ Len(schedules') = Len(schedules)
             /\ \A i \in 1..Len(schedules) :
                   schedules'[i]["id"] = schedules[i]["id"]]_vars

\* a successful update of the second record changed its scheduled value,
\* so its body carried scheduled, and every such body of RawPayloads carries
\* the id of the first record
C12_Witness ==
    /\ last.op = "put"
    /\ last.code = 200
    /\ last.id = 2
    /\ Len(schedules) = 2
    /\ last.found # <<>>
    /\ last.found[1]["scheduled"] # schedules[2]["scheduled"]
    /\ schedules[1]["id"] = 1
    /\ schedules[2]["id"] = 2

\* C13: an update of a pending record with a valid body that carries the
\* status progress or finished leaves the record with that status.
C13_UpdateSetsStatus ==
    [][last'.op = "put" =>
         \A id \in Ids, raw \in RawPayloads :
            (/\ Has(raw, "status")
             /\ raw["status"] \in {"progress", "finished"}
             /\ ScheduleOrderSchema(raw) = {}
             /\ Scan(schedules, id) # 0
             /\ schedules[Scan(schedules, id)]["status"] = "pending"
             /\ KitchenSchedule_put(id, raw)) =>
               schedules'[Scan(schedules, id)]["status"] = raw["status"]]_vars

\* the response schema, spelled out: id, a status of the enumeration and
\* scheduled are present, and order is a list of items that each have a
\* product, one of the three sizes and a quantity of at least 1
SatisfiesResponseSchema(r) ==
    /\ {"id", "status", "scheduled", "order"} \subseteq DOMAIN r
    /\ r["status"] \in {"pending", "progress", "cancelled", "finished"}
    /\ \A k \in 1..Len(r["order"]) :
          LET item == r["order"][k]
          IN  /\ {"product", "size", "quantity"} \subseteq DOMAIN item
              /\ item["size"] \in {"Small", "Medium", "Large"}
              /\ item["quantity"] >= 1

\* C14: every record that list, get-by-id, update, cancel or create returns
\* with success satisfies the response schema, and the status that
\* get-status returns with success is one of the enumeration.
C14_ReturnedRecordsAreValid ==
    last.code \in {200, 201} =>
       \A k \in 1..Len(last.body) :
          IF last.op = "status"
          THEN last.body[k]["status"] \in {"pending", "progress", "cancelled", "finished"}
          ELSE SatisfiesResponseSchema(last.body[k])

\* a listing returned two records, one of them cancelled
C14_Witness ==
    /\ last.op = "list"
    /\ last.code = 200
    /\ Len(last.body) = 2
    /\ \E k \in 1..2 : last.body[k]["status"] = "cancelled"

\* the records of s whose id is not id, in the order of s
Without(s, id) == SelectSeq(s, LAMBDA r : r["id"] # id)

\* the records at the positions other than i are the same in s and t
SameElsewhere(s, t, i) ==
    /\ Len(t) = Len(s)
    /\ \A j \in 1..Len(s) : j # i => t[j] = s[j]

C17_FailedValidationHasNoEffect ==
    [][(last'.op \in {"post", "put", "cancel"} /\ last'.code \in {422, 500})
          => schedules' = schedules]_vars

\* C18: a cancelled record stays cancelled for as long as it is in the
\* list, whatever request is made, and a get-status of a cancelled record,
\* where requests on it can succeed at all, answers 200 with cancelled.
C18_CancelledIsAbsorbing ==
    [][/\ \A i \in 1..Len(schedules), j \in 1..Len(schedules') :
             (/\ schedules[i]["id"] = schedules'[j]["id"]
              /\ schedules[i]["status"] = "cancelled")
                => schedules'[j]["status"] = "cancelled"
       /\ last'.op = "status" =>
             \A id \in Ids :
                (/\ Scan(schedules, id) # 0
                 /\ schedules[Scan(schedules, id)]["status"] = "cancelled"
                 /\ acceptsDatetime
                 /\ get_schedule_status(id)) =>
                   /\ last'.code = 200
                   /\ last'.body = <<[status |-> "cancelled"]>>]_vars

\* get-status answered cancelled for the second record, which was updated
\* after its cancel (its scheduled is no longer a clock value that a create
\* could have given it), while the first record is pending
C18_Witness ==
    /\ last.op = "status"
    /\ last.code = 200
    /\ last.id = 2
    /\ last.body = <<[status |-> "cancelled"]>>
    /\ Len(schedules) = 2
    /\ schedules[1]["status"] = "pending"
    /\ schedules[2]["scheduled"] < schedules[1]["scheduled"]

\* C15: the created value of every order is at or after the clock value of
\* its creation.
C15_CreatedAtCreation ==
    \A o \in 1..Len(stamps) : stamps[o].created >= stamps[o].at

\* C19: with the scan and the mutation of a request as separate steps and
\* two requests interleaved, a delete for id X removes no record with
\* another id, an update or cancel for id X writes to no record with
\* another id, and an update or cancel that reports success has written to
\* a record that was in the list at that moment.
C19_NoInterference ==
    \A r \in Requests :
       /\ req[r].removed \in {0, req[r].id}
       /\ req[r].schedule \in {0, req[r].id}
       /\ (req[r].op \in {"put", "cancel"} /\ req[r].code = 200) => req[r].inList
====
